---- MODULE Spec2Model ----
(***************************************************************************)
(* A model of mfcauto's protocol engine (src/mfcauto/client.py):           *)
(* MFCProtocol.data_received (the frame decoder), Client._process_packet   *)
(* (the state merge), Client.connect / disconnect / handle_disconnected    *)
(* (the connection lifecycle with its keepalive and reconnect timers) and  *)
(* Client.query_user (the query correlation).                              *)
(*                                                                         *)
(* Texts are sequences of Unicode code points, byte strings are sequences  *)
(* of 0..255, and a Python value is a tagged record [t |-> tag, v |-> x].  *)
(***************************************************************************)
EXTENDS Integers, Sequences, FiniteSets, TLC

(***************************************************************************)
(* Python values.                                                          *)
(***************************************************************************)
None == [t |-> "null", v |-> 0]
PyInt(n) == [t |-> "int", v |-> n]
PyStr(s) == [t |-> "str", v |-> s]
PyList(l) == [t |-> "list", v |-> l]
PyDict(d) == [t |-> "dict", v |-> d]
EmptyDict == PyDict(<<>>)

\* isinstance(x, dict) / list / str / int
IsDict(x) == x.t = "dict"
IsList(x) == x.t = "list"
IsStr(x) == x.t = "str"

\* A dict is a sequence of <<key text, value>> pairs in insertion order.
RECURSIVE DictFind(_, _, _)
DictFind(d, k, i) ==
    IF i > Len(d) THEN 0
    ELSE IF d[i][1] = k THEN i
    ELSE DictFind(d, k, i + 1)

DictHas(x, k) == DictFind(x.v, k, 1) # 0
DictGet(x, k) == x.v[DictFind(x.v, k, 1)][2]
DictSet(x, k, val) ==
    LET i == DictFind(x.v, k, 1)
    IN  IF i = 0 THEN PyDict(Append(x.v, <<k, val>>))
        ELSE PyDict([x.v EXCEPT ![i] = <<k, val>>])

\* s.startswith(p) on texts
StartsWith(s, p) == Len(s) >= Len(p) /\ SubSeq(s, 1, Len(p)) = p

RECURSIVE FindSub(_, _, _)
FindSub(s, p, i) ==
    IF i + Len(p) - 1 > Len(s) THEN FALSE
    ELSE IF SubSeq(s, i, i + Len(p) - 1) = p THEN TRUE
    ELSE FindSub(s, p, i + 1)

\* p in s on texts (substring)
StrContains(s, p) == FindSub(s, p, 1)

(***************************************************************************)
(* struct: big-endian signed 32-bit integers.                              *)
(***************************************************************************)
Pow2(n) == 2 ^ n

\* struct.pack(">i", n): two's complement, most significant byte first
Pack32(n) ==
    << (n \div Pow2(24)) % 256, (n \div Pow2(16)) % 256, (n \div Pow2(8)) % 256, n % 256 >>

\* struct.unpack(">i", b), b four bytes
Unpack32(b) ==
    (IF b[1] >= 128 THEN b[1] - 256 ELSE b[1]) * Pow2(24)
        + b[2] * Pow2(16) + b[3] * Pow2(8) + b[4]

\* struct.calcsize(">iiiiiii")
packet_size == 28

UnpackHeader(b) == [i \in 1..7 |-> Unpack32(SubSeq(b, 4 * i - 3, 4 * i))]

\* buffer[i:] with Python's slice semantics (a negative i counts from the end)
SliceFrom(b, i) ==
    IF i >= 0 THEN SubSeq(b, i + 1, Len(b))
    ELSE IF -i >= Len(b) THEN b
    ELSE SubSeq(b, Len(b) + i + 1, Len(b))

(***************************************************************************)
(* UTF-8, for code points below 0x800 (one- and two-byte sequences).       *)
(***************************************************************************)
EncodeChar(c) ==
    IF c < 128 THEN << c >> ELSE << 192 + (c \div 64), 128 + (c % 64) >>

RECURSIVE Utf8Encode(_)
Utf8Encode(s) ==
    IF s = << >> THEN << >> ELSE EncodeChar(Head(s)) \o Utf8Encode(Tail(s))

\* bytes.decode('utf-8'): [ok |-> FALSE] is UnicodeDecodeError
RECURSIVE Utf8Decode(_)
Utf8Decode(b) ==
    IF b = << >> THEN [ok |-> TRUE, s |-> << >>]
    ELSE IF b[1] < 128 THEN
        LET r == Utf8Decode(Tail(b))
        IN  [ok |-> r.ok, s |-> << b[1] >> \o r.s]
    ELSE IF b[1] >= 194 /\ b[1] < 224 /\ Len(b) >= 2 /\ b[2] >= 128 /\ b[2] < 192 THEN
        LET r == Utf8Decode(SubSeq(b, 3, Len(b)))
        IN  [ok |-> r.ok, s |-> << (b[1] - 192) * 64 + (b[2] - 128) >> \o r.s]
    ELSE [ok |-> FALSE, s |-> << >>]

(***************************************************************************)
(* json.loads on the fragment of JSON without whitespace, escapes, signs   *)
(* and fractions: null, non-negative integers, strings, arrays, objects.   *)
(* Every other text of the model is a JSONDecodeError.                     *)
(***************************************************************************)
IsDigit(c) == c >= 48 /\ c <= 57
JFail == [ok |-> FALSE, v |-> None, next |-> 0]

RECURSIVE ParseDigits(_, _, _)
ParseDigits(s, i, acc) ==
    IF i <= Len(s) /\ IsDigit(s[i]) THEN ParseDigits(s, i + 1, acc * 10 + (s[i] - 48))
    ELSE [ok |-> TRUE, v |-> PyInt(acc), next |-> i]

RECURSIVE ScanString(_, _)
\* the index of the closing quote of a string whose body starts at i, or 0
ScanString(s, i) ==
    IF i > Len(s) THEN 0
    ELSE IF s[i] = 34 THEN i
    ELSE IF s[i] = 92 \/ s[i] < 32 THEN 0
    ELSE ScanString(s, i + 1)

RECURSIVE ParseValue(_, _)
RECURSIVE ParseElems(_, _, _)
RECURSIVE ParseMembers(_, _, _)

ParseValue(s, i) ==
    IF i > Len(s) THEN JFail
    ELSE IF s[i] = 110 THEN                                  \* n(ull)
        IF i + 3 <= Len(s) /\ SubSeq(s, i, i + 3) = << 110, 117, 108, 108 >>
        THEN [ok |-> TRUE, v |-> None, next |-> i + 4] ELSE JFail
    ELSE IF s[i] = 48 THEN [ok |-> TRUE, v |-> PyInt(0), next |-> i + 1]
    ELSE IF IsDigit(s[i]) THEN ParseDigits(s, i, 0)
    ELSE IF s[i] = 34 THEN                                   \* "
        LET j == ScanString(s, i + 1)
        IN  IF j = 0 THEN JFail
            ELSE [ok |-> TRUE, v |-> PyStr(SubSeq(s, i + 1, j - 1)), next |-> j + 1]
    ELSE IF s[i] = 91 THEN                                   \* [
        IF i + 1 <= Len(s) /\ s[i + 1] = 93
        THEN [ok |-> TRUE, v |-> PyList(<< >>), next |-> i + 2]
        ELSE ParseElems(s, i + 1, << >>)
    ELSE IF s[i] = 123 THEN                                  \* {
        IF i + 1 <= Len(s) /\ s[i + 1] = 125
        THEN [ok |-> TRUE, v |-> EmptyDict, next |-> i + 2]
        ELSE ParseMembers(s, i + 1, EmptyDict)
    ELSE JFail

ParseElems(s, i, acc) ==
    LET r == ParseValue(s, i)
    IN  IF ~r.ok \/ r.next > Len(s) THEN JFail
        ELSE IF s[r.next] = 44 THEN ParseElems(s, r.next + 1, Append(acc, r.v))
        ELSE IF s[r.next] = 93
             THEN [ok |-> TRUE, v |-> PyList(Append(acc, r.v)), next |-> r.next + 1]
        ELSE JFail

ParseMembers(s, i, acc) ==
    IF i > Len(s) \/ s[i] # 34 THEN JFail
    ELSE
      LET j == ScanString(s, i + 1)
      IN  IF j = 0 \/ j + 1 > Len(s) \/ s[j + 1] # 58 THEN JFail
          ELSE
            LET k == SubSeq(s, i + 1, j - 1)
                r == ParseValue(s, j + 2)
            IN  IF ~r.ok \/ r.next > Len(s) THEN JFail
                ELSE IF s[r.next] = 44
                     THEN ParseMembers(s, r.next + 1, DictSet(acc, k, r.v))
                ELSE IF s[r.next] = 125
                     THEN [ok |-> TRUE, v |-> DictSet(acc, k, r.v), next |-> r.next + 1]
                ELSE JFail

\* json.loads(text): [ok |-> FALSE] is json.decoder.JSONDecodeError
JsonLoads(s) ==
    LET r == ParseValue(s, 1)
    IN  IF r.ok /\ r.next = Len(s) + 1 THEN [ok |-> TRUE, v |-> r.v]
        ELSE [ok |-> FALSE, v |-> None]

(***************************************************************************)
(* Protocol constants.  MAGIC and the synthetic event kinds are set by     *)
(* gen_constants.py; the wire kinds are those of the generated constants   *)
(* module, of which only distinctness matters here.                        *)
(***************************************************************************)
MAGIC == -2027771214

CLIENT_TAGSLOADED == -6
CLIENT_DISCONNECTED == -5
CLIENT_MODELSLOADED == -4
CLIENT_CONNECTED == -3
ANY == -2

FCTYPE_NULL == 0
FCTYPE_LOGIN == 1
FCTYPE_ADDFRIEND == 2
FCTYPE_PMESG == 3
FCTYPE_DETAILS == 5
FCTYPE_TOKENINC == 6
FCTYPE_ADDIGNORE == 7
FCTYPE_USERNAMELOOKUP == 10
FCTYPE_MANAGELIST == 14
FCTYPE_SESSIONSTATE == 20
FCTYPE_TXPROFILE == 25
FCTYPE_TKX == 30
FCTYPE_ROOMHELPER == 49
FCTYPE_CMESG == 50
FCTYPE_JOINCHAN == 51
FCTYPE_TAGS == 64
FCTYPE_METRICS == 69
FCTYPE_MYWEBCAM == 72
FCTYPE_MYCAMSTATE == 73
FCTYPE_BOOKMARKS == 77
FCTYPE_EXTDATA == 81

FCL_ROOMMATES == 0
FCL_CAMS == 1
FCL_FRIENDS == 2
FCL_IGNORES == 3
FCL_TAGS == 20
FCLEVEL_MODEL == 4
FCCHAN_PART == 2
FCWOPT_REDIS_JSON == 8192

\* the kinds whose payload is merged into one entity (client.py:110-113)
MergeKinds ==
    { FCTYPE_DETAILS, FCTYPE_ROOMHELPER, FCTYPE_SESSIONSTATE, FCTYPE_ADDFRIEND,
      FCTYPE_ADDIGNORE, FCTYPE_CMESG, FCTYPE_PMESG, FCTYPE_TXPROFILE,
      FCTYPE_USERNAMELOOKUP, FCTYPE_MYCAMSTATE, FCTYPE_MYWEBCAM }

\* the texts the code names
K_guest == << 103, 117, 101, 115, 116 >>
K_Guest == << 71, 117, 101, 115, 116 >>
K_lv == << 108, 118 >>
K_uid == << 117, 105, 100 >>
K_rdata == << 114, 100, 97, 116, 97 >>
K_bookmarks == << 98, 111, 111, 107, 109, 97, 114, 107, 115 >>
K_respkey == << 114, 101, 115, 112, 107, 101, 121 >>
K_cxid == << 99, 120, 105, 100 >>
K_tkx == << 116, 107, 120 >>
K_ctxenc == << 99, 116, 120, 101, 110, 99 >>

(***************************************************************************)
(* Python's duck-typed operations; [raised |-> TRUE] is an exception.      *)
(***************************************************************************)
RECURSIVE ListHas(_, _, _)
ListHas(l, val, i) ==
    IF i > Len(l) THEN FALSE
    ELSE IF l[i] = val THEN TRUE
    ELSE ListHas(l, val, i + 1)

\* k in x: TypeError on None and on an int
PyIn(k, x) ==
    CASE IsDict(x) -> [raised |-> FALSE, r |-> DictHas(x, k)]
      [] IsStr(x) -> [raised |-> FALSE, r |-> StrContains(x.v, k)]
      [] IsList(x) -> [raised |-> FALSE, r |-> ListHas(x.v, PyStr(k), 1)]
      [] OTHER -> [raised |-> TRUE, r |-> FALSE]

\* x[k] for a text k: KeyError on a dict without k, TypeError on every other type
PyGetItem(x, k) ==
    IF IsDict(x) /\ DictHas(x, k) THEN [raised |-> FALSE, r |-> DictGet(x, k)]
    ELSE [raised |-> TRUE, r |-> None]

\* d.setdefault(k, None) on a dict: the value, and the dict it leaves
SetDefault(d, k) ==
    IF DictHas(d, k) THEN [r |-> DictGet(d, k), d |-> d]
    ELSE [r |-> None, d |-> DictSet(d, k, None)]

\* for e in x: the elements iterated; TypeError on None and on an int
PyIter(x) ==
    CASE IsList(x) -> [raised |-> FALSE, items |-> x.v]
      [] IsDict(x) -> [raised |-> FALSE, items |-> [i \in 1..Len(x.v) |-> PyStr(x.v[i][1])]]
      [] IsStr(x) -> [raised |-> FALSE, items |-> [i \in 1..Len(x.v) |-> PyStr(<< x.v[i] >>)]]
      [] OTHER -> [raised |-> TRUE, items |-> << >>]

(***************************************************************************)
(* Client._process_list (client.py:240-267).  A schema path is <<field>>   *)
(* or <<group, subfield>>.                                                 *)
(***************************************************************************)
\* every slot of the group filed under the group's first subfield
GroupPaths_first(key, subs, i, acc) ==
    acc \o [j \in 1..Len(subs) |-> << PyStr(key), subs[1] >>]

RECURSIVE GroupPaths(_, _, _, _)
\* for path2 in path1[key]: schema_map.append([key, path2])
GroupPaths(key, subs, i, acc) ==
    IF i > Len(subs) THEN acc
    ELSE GroupPaths(key, subs, i + 1, Append(acc, << PyStr(key), subs[i] >>))

RECURSIVE GroupKeys(_, _, _)
\* for key in path1: ...
GroupKeys(path1, i, acc) ==
    IF acc.raised \/ i > Len(path1.v) THEN acc
    ELSE
      LET it == PyIter(path1.v[i][2])
      IN  IF it.raised THEN [raised |-> TRUE, map |-> acc.map]
          ELSE GroupKeys(path1, i + 1,
                   [raised |-> FALSE, map |-> GroupPaths(path1.v[i][1], it.items, 1, acc.map)])

RECURSIVE SchemaMap(_, _, _)
\* for path1 in schema: ...
SchemaMap(schema, i, acc) ==
    IF acc.raised \/ i > Len(schema) THEN acc
    ELSE IF IsDict(schema[i]) THEN SchemaMap(schema, i + 1, GroupKeys(schema[i], 1, acc))
    ELSE IF IsStr(schema[i])
         THEN SchemaMap(schema, i + 1,
                  [raised |-> FALSE, map |-> Append(acc.map, << schema[i] >>)])
    ELSE SchemaMap(schema, i + 1, acc)

RECURSIVE RecordToMsg(_, _, _, _)
\* for i, item in enumerate(record): ...   (IndexError past the schema map; a key
\* that is not a text, or a group name already holding a value that is no dict,
\* is a TypeError)
RecordToMsg(record, schema_map, i, msg) ==
    IF i > Len(record) THEN [raised |-> FALSE, msg |-> msg]
    ELSE IF i > Len(schema_map) THEN [raised |-> TRUE, msg |-> msg]
    ELSE
      LET path == schema_map[i]
          item == record[i]
      IN  IF Len(path) = 1
          THEN RecordToMsg(record, schema_map, i + 1, DictSet(msg, path[1].v, item))
          ELSE
            LET group == IF DictHas(msg, path[1].v) THEN DictGet(msg, path[1].v) ELSE EmptyDict
            IN  IF ~IsDict(group) \/ ~IsStr(path[2]) THEN [raised |-> TRUE, msg |-> msg]
                ELSE RecordToMsg(record, schema_map, i + 1,
                         DictSet(msg, path[1].v, DictSet(group, path[2].v, item)))

RECURSIVE Records(_, _, _, _)
\* for record in data[1:]: ...
Records(data, schema_map, i, result) ==
    IF i > Len(data) THEN [raised |-> FALSE, r |-> PyList(result)]
    ELSE IF IsList(data[i]) THEN
        LET m == RecordToMsg(data[i].v, schema_map, 1, EmptyDict)
        IN  IF m.raised THEN [raised |-> TRUE, r |-> None]
            ELSE Records(data, schema_map, i + 1, Append(result, m.msg))
    ELSE IF IsDict(data[i]) THEN Records(data, schema_map, i + 1, Append(result, data[i]))
    ELSE Records(data, schema_map, i + 1, result)

_process_list(data) ==
    IF IsList(data) /\ Len(data.v) > 0 THEN
        LET it == PyIter(data.v[1])
            sm == IF it.raised THEN [raised |-> TRUE, map |-> << >>]
                  ELSE SchemaMap(it.items, 1, [raised |-> FALSE, map |-> << >>])
        IN  IF sm.raised THEN [raised |-> TRUE, r |-> None]
            ELSE Records(data.v, sm.map, 2, << >>)
    ELSE [raised |-> FALSE, r |-> data]

(***************************************************************************)
(* The engine state that receiving a packet reads and writes, as one       *)
(* record: client (the Client object's fields), models (Model.All, the     *)
(* ids with a record), listeners (the query handlers subscribed to         *)
(* USERNAMELOOKUP, in subscription order), futures (query id -> its        *)
(* future), events (what emit delivered during the current callback),      *)
(* buffer (MFCProtocol.buffer), decoded (the packets data_received has     *)
(* handed to the client), packet (the packet being dispatched),            *)
(* raised (an exception is propagating), stopped (loop.stop() was called)  *)
(* and hung (the decode loop does not return).                             *)
(***************************************************************************)
Packet(fctype, nfrom, nto, narg1, narg2, smessage) ==
    [fctype |-> fctype, nfrom |-> nfrom, nto |-> nto, narg1 |-> narg1,
     narg2 |-> narg2, smessage |-> smessage]

\* emit(kind) without a packet
NoPacket == Packet(FCTYPE_NULL, 0, 0, 0, 0, None)

Raise(s) == [s EXCEPT !.raised = TRUE]

\* Model.get_model(uid) followed by a merge: the registry holds a record for uid
GetModel(s, uid) == [s EXCEPT !.models = @ \cup {uid}]

\* packet.aboutmodel.uid: every mapping payload of the model carries its own uid,
\* so this is never consulted
aboutmodel_uid(packet) == None

\* the listener left subscribed when it resolves the future
handler_stays(s, query_id, packet) ==
    IF packet.narg1 = query_id THEN
        [s EXCEPT !.futures[query_id] =
                      IF @.state # "pending" THEN @
                      ELSE [state |-> "done",
                            result |-> IF IsDict(packet.smessage) THEN packet.smessage
                                       ELSE None],
                  !.raised = s.futures[query_id].state # "pending"]
    ELSE s

\* the listener of query_user (client.py:313-320), for query query_id
handler(s, query_id, packet) ==
    IF packet.narg1 = query_id THEN
        [s EXCEPT !.listeners = SelectSeq(@, LAMBDA q : q # query_id),
                  !.futures[query_id] =
                      IF @.state # "pending" THEN @
                      ELSE [state |-> "done",
                            result |-> IF IsDict(packet.smessage) THEN packet.smessage
                                       ELSE None],
                  !.raised = s.futures[query_id].state # "pending"]
    ELSE s

RECURSIVE RunHandlers(_, _, _, _)
RunHandlers(s, subscribed, i, packet) ==
    IF s.raised \/ i > Len(subscribed) THEN s
    ELSE RunHandlers(handler(s, subscribed[i], packet), subscribed, i + 1, packet)

\* EventEmitter.emit(kind, packet): the handlers subscribed to kind, in
\* subscription order.  The event recorded carries the registry (Model.All) as a
\* handler of the event finds it.
emit(s, kind, packet) ==
    LET s1 == [s EXCEPT !.events = Append(@, [kind |-> kind, packet |-> packet,
                                              registry |-> s.models])]
    IN  IF kind = FCTYPE_USERNAMELOOKUP THEN RunHandlers(s1, s1.listeners, 1, packet)
        ELSE s1

RECURSIVE MergeTagKeys(_, _, _, _)
\* for key, value in d.items(): Model.get_model(...).merge_tags(value)
\* (asInt: the key goes through int(), a ValueError unless it is all digits)
MergeTagKeys(s, d, i, asInt) ==
    IF i > Len(d.v) THEN s
    ELSE
      LET key == d.v[i][1]
          n == ParseDigits(key, 1, 0)
      IN  IF ~asInt THEN MergeTagKeys(GetModel(s, PyStr(key)), d, i + 1, asInt)
          ELSE IF key = << >> \/ n.next # Len(key) + 1 THEN Raise(s)
          ELSE MergeTagKeys(GetModel(s, n.v), d, i + 1, asInt)

RECURSIVE MergeRows(_, _, _, _)
\* for payload in rows: Model.get_model(payload["uid"], ...).merge(payload)
\* (needLv: payload["lv"] is read too)
MergeRows(s, rows, i, needLv) ==
    IF i > Len(rows) THEN s
    ELSE
      LET uid == PyGetItem(rows[i], K_uid)
          lv == PyGetItem(rows[i], K_lv)
      IN  IF uid.raised \/ (needLv /\ lv.raised) THEN Raise(s)
          ELSE MergeRows(GetModel(s, uid.r), rows, i + 1, needLv)

RECURSIVE SplitSlash(_, _, _)
\* text.split("/")
SplitSlash(text, i, acc) ==
    IF i > Len(text) THEN acc
    ELSE IF text[i] = 47 THEN SplitSlash(text, i + 1, Append(acc, << >>))
    ELSE SplitSlash(text, i + 1, [acc EXCEPT ![Len(acc)] = Append(@, text[i])])

\* client.py:105-106 with the two fields taken from each other's place
ProcessLogin_swapped(s, packet) ==
    IF packet.narg1 # 0 THEN Raise(s)
    ELSE [s EXCEPT !.client.session_id = packet.narg2,
                   !.client.uid = PyInt(packet.nto),
                   !.client.username = packet.smessage]

\* client.py:99-107
ProcessLogin(s, packet) ==
    IF packet.narg1 # 0 THEN Raise(s)
    ELSE [s EXCEPT !.client.session_id = packet.nto,
                   !.client.uid = PyInt(packet.narg2),
                   !.client.username = packet.smessage]

ProcessMerge(s, packet) ==
    IF ~( (packet.fctype = FCTYPE_DETAILS /\ packet.nfrom = FCTYPE_TOKENINC)
          \/ (packet.fctype = FCTYPE_ROOMHELPER /\ packet.narg2 < 100)
          \/ (packet.fctype = FCTYPE_JOINCHAN /\ packet.narg2 = FCCHAN_PART) )
       /\ IsDict(packet.smessage)
    THEN
      LET lv == SetDefault(packet.smessage, K_lv)
          uid == SetDefault(lv.d, K_uid)
          s1 == [s EXCEPT !.packet.smessage = uid.d]
          user_level == lv.r
          user_id == IF uid.r = None THEN aboutmodel_uid(packet) ELSE uid.r
      IN  IF user_id # None /\ user_id # PyInt(-1)
             /\ (user_level # None \/ user_level = PyInt(4))
          THEN GetModel(s1, user_id)
          ELSE s1
    ELSE s

ProcessTags(s, packet) ==
    IF IsDict(packet.smessage) THEN MergeTagKeys(s, packet.smessage, 1, TRUE) ELSE s

ProcessBookmarks(s, packet) ==
    LET has == PyIn(K_bookmarks, packet.smessage)
        bm == PyGetItem(packet.smessage, K_bookmarks)
    IN  IF has.raised THEN Raise(s)
        ELSE IF ~has.r THEN s
        ELSE IF bm.raised THEN Raise(s)
        ELSE IF IsList(bm.r) THEN MergeRows(s, bm.r.v, 1, FALSE)
        ELSE s

\* _handle_extdata: the resolver (an HTTP fetch) is an external collaborator; no
\* payload of the model carries a respkey
ProcessExtdata(s, packet) ==
    IF packet.nto = s.client.session_id /\ packet.narg2 = FCWOPT_REDIS_JSON
       /\ packet.smessage # None
    THEN IF PyIn(K_respkey, packet.smessage).raised THEN Raise(s) ELSE s
    ELSE s

ProcessManagelist(s, packet) ==
    LET has == IF packet.narg2 > 0 THEN PyIn(K_rdata, packet.smessage)
               ELSE [raised |-> FALSE, r |-> FALSE]
        raw == PyGetItem(packet.smessage, K_rdata)
        rdata == _process_list(raw.r)
        ntype == packet.narg2
    IN  IF has.raised THEN Raise(s)
        ELSE IF ~has.r THEN s
        ELSE IF raw.raised \/ rdata.raised THEN Raise(s)
        ELSE IF ntype \in {FCL_ROOMMATES, FCL_CAMS, FCL_FRIENDS, FCL_IGNORES}
                /\ IsList(rdata.r)
        THEN
          LET s1 == MergeRows(s, rdata.r.v, 1, TRUE)
          IN  IF s1.raised THEN s1
              ELSE IF ntype = FCL_CAMS /\ ~s1.client._completed_models
              THEN emit([s1 EXCEPT !.client._completed_models = TRUE],
                        CLIENT_MODELSLOADED, NoPacket)
              ELSE s1
        ELSE IF ntype = FCL_TAGS /\ IsDict(rdata.r)
        THEN
          LET s1 == MergeTagKeys(s, rdata.r, 1, FALSE)
          IN  IF ~s1.client._completed_tags
              THEN emit([s1 EXCEPT !.client._completed_tags = TRUE],
                        CLIENT_TAGSLOADED, NoPacket)
              ELSE s1
        ELSE s

ProcessTkx(s, packet) ==
    LET m == packet.smessage
        h1 == PyIn(K_cxid, m)
        h2 == PyIn(K_tkx, m)
        h3 == PyIn(K_ctxenc, m)
    IN  IF h1.raised THEN Raise(s)
        ELSE IF ~(h1.r /\ h2.r /\ h3.r) THEN s
        ELSE IF ~IsDict(m) \/ ~IsStr(DictGet(m, K_ctxenc)) THEN Raise(s)
        ELSE
          LET parts == SplitSlash(DictGet(m, K_ctxenc).v, 1, << << >> >>)
          IN  [s EXCEPT !.client.stream_cxid = DictGet(m, K_cxid),
                        !.client.stream_password = DictGet(m, K_tkx),
                        !.client.stream_vidctx =
                            IF Len(parts) > 1 THEN PyStr(parts[2])
                            ELSE DictGet(m, K_ctxenc)]

\* Client._process_packet (client.py:96-173), on the packet s.packet
_process_packet(s) ==
    LET packet == s.packet
        fctype == packet.fctype
    IN  CASE fctype = FCTYPE_LOGIN -> ProcessLogin(s, packet)
          [] fctype \in MergeKinds -> ProcessMerge(s, packet)
          [] fctype = FCTYPE_TAGS -> ProcessTags(s, packet)
          [] fctype = FCTYPE_BOOKMARKS -> ProcessBookmarks(s, packet)
          [] fctype = FCTYPE_METRICS -> s
          [] fctype = FCTYPE_EXTDATA -> ProcessExtdata(s, packet)
          [] fctype = FCTYPE_MANAGELIST -> ProcessManagelist(s, packet)
          [] fctype = FCTYPE_TKX -> ProcessTkx(s, packet)
          [] OTHER -> s

\* client.py:95, once emit(packet.fctype, packet) has run on s
EmitAny(s) == IF s.raised THEN s ELSE emit(s, ANY, s.packet)

\* client.py:94-95, once _process_packet has run on s
EmitKind(s) == IF s.raised THEN s ELSE EmitAny(emit(s, s.packet.fctype, s.packet))

\* the handlers notified first, the packet merged afterwards
handle_packet_received_late(s, packet) ==
    _process_packet(EmitKind([s EXCEPT !.packet = packet]))

\* Client.handle_packet_received (client.py:90-95)
handle_packet_received(s, packet) == EmitKind(_process_packet([s EXCEPT !.packet = packet]))

\* the except clause of data_received (client.py:61-65): the exception is logged
\* and swallowed, loop.stop()
LoopStop(s) == [s EXCEPT !.raised = FALSE, !.stopped = TRUE]

\* the payload of the packet (client.py:46-57): text is the decoded payload
Payload(spayload, text) ==
    IF spayload <= 0 THEN None
    ELSE IF JsonLoads(text).ok THEN JsonLoads(text).v
    ELSE PyStr(text)

RECURSIVE RxLoop(_)
\* after handle_packet_received left s1 (client.py:60-65 and the loop's next
\* turn): s is the state the turn started in, with rest the new buffer
RxNext(s, s1, rest) ==
    IF s1.raised THEN LoopStop(s1)
    ELSE IF rest = s.buffer THEN [s1 EXCEPT !.hung = TRUE]
    ELSE RxLoop(s1)

\* client.py:59-60: the packet is built, the buffer cut, the packet handed over
RxDispatch(s, packet, spayload, rest) ==
    RxNext(s, handle_packet_received(
                  [s EXCEPT !.buffer = rest, !.decoded = Append(@, packet),
                            !.cuts = Append(@, [declared |-> spayload,
                                                removed |-> Len(s.buffer) - Len(rest)])],
                  packet),
           rest)

\* client.py:48-60, text the outcome of decoding the payload bytes
RxPayload(s, unpacked_data, text) ==
    IF ~text.ok THEN LoopStop(s)
    ELSE RxDispatch(s,
                    Packet(unpacked_data[2], unpacked_data[3], unpacked_data[4],
                           unpacked_data[5], unpacked_data[6],
                           Payload(unpacked_data[7], text.s)),
                    unpacked_data[7],
                    SliceFrom(s.buffer, packet_size + unpacked_data[7]))

\* client.py:44-53, unpacked_data the seven header fields
RxHeader(s, unpacked_data) ==
    IF unpacked_data[1] # MAGIC THEN LoopStop(s)
    ELSE IF unpacked_data[7] > 0 /\ Len(s.buffer) < packet_size + unpacked_data[7] THEN s
    ELSE RxPayload(s, unpacked_data,
                   IF unpacked_data[7] > 0
                   THEN Utf8Decode(SubSeq(s.buffer, packet_size + 1,
                                          packet_size + unpacked_data[7]))
                   ELSE [ok |-> TRUE, s |-> << >>])

\* the while loop of MFCProtocol.data_received (client.py:36-65)
RxLoop(s) ==
    IF Len(s.buffer) < packet_size THEN s
    ELSE RxHeader(s, UnpackHeader(SubSeq(s.buffer, 1, packet_size)))

\* client.py:35 as self.buffer = data: what was buffered is forgotten
data_received_unbuffered(s, data) == RxLoop([s EXCEPT !.buffer = data])

\* MFCProtocol.data_received(data) (client.py:34-65)
data_received(s, data) == RxLoop([s EXCEPT !.buffer = @ \o data])

(***************************************************************************)
(* Sending (client.py:215-224).                                            *)
(***************************************************************************)
RECURSIVE IntToText(_)
\* str(n) for n >= 0
IntToText(n) ==
    IF n < 10 THEN << 48 + n >> ELSE IntToText(n \div 10) \o << 48 + (n % 10) >>

\* "{}".format(x) for the values a username takes in the model: a text, None, an
\* int
Format(x) ==
    CASE IsStr(x) -> x.v
      [] x = None -> << 78, 111, 110, 101 >>
      [] OTHER -> IntToText(x.v)

\* struct's "Ns" field: the bytes cut or zero-padded to exactly n
FitBytes(b, n) == [i \in 1..n |-> IF i <= Len(b) THEN b[i] ELSE 0]

\* the frame tx_cmd writes: the length field and the "Ns" field are len(smsg), the
\* number of characters of the text
tx_cmd(session_id, fctype, nto, narg1, narg2, smsg) ==
    Pack32(MAGIC) \o Pack32(fctype) \o Pack32(session_id) \o Pack32(nto)
        \o Pack32(narg1) \o Pack32(narg2) \o Pack32(Len(smsg))
        \o FitBytes(Utf8Encode(smsg), Len(smsg))

(***************************************************************************)
(* Bounds of the model.                                                    *)
(***************************************************************************)
\* connections (sockets) alive or being opened at once
MaxConns == 2
\* timer handles pending in the event loop at once
MaxTimers == 2
\* query_user calls
MaxQueries == 2
\* time passes in steps of this many units, or up to the next timer
TickQuantum == 30

\* call_later(30, ...) of handle_disconnected, call_later(120, ...) of the keepalive
ReconnectDelay == 30
KeepaliveDelay == 120
\* Client.userQueryId
FirstQueryId == 20
\* the version constant sent with LOGIN
LoginVersion == 20071025

(***************************************************************************)
(* The frames the server sends in the lifecycle model.                     *)
(***************************************************************************)
Frame(magic, fctype, nfrom, nto, narg1, narg2, text) ==
    [magic |-> magic, fctype |-> fctype, nfrom |-> nfrom, nto |-> nto,
     narg1 |-> narg1, narg2 |-> narg2, text |-> text]

\* the bytes of a well-formed frame: the length field is the payload's byte length
FrameBytes(f) ==
    LET body == Utf8Encode(f.text)
    IN  Pack32(f.magic) \o Pack32(f.fctype) \o Pack32(f.nfrom) \o Pack32(f.nto)
            \o Pack32(f.narg1) \o Pack32(f.narg2) \o Pack32(Len(body)) \o body

T_alice == << 97, 108, 105, 99, 101 >>
T_Guest9 == << 71, 117, 101, 115, 116, 57 >>
T_cams == << 123, 34, 114, 100, 97, 116, 97, 34, 58, 91, 91, 34, 117, 105, 100, 34, 44, 34, 108, 118, 34, 93, 44, 91, 49, 44, 52, 93, 93, 125 >>
T_tags == << 123, 34, 114, 100, 97, 116, 97, 34, 58, 123, 34, 49, 34, 58, 91, 34, 97, 34, 93, 125, 125 >>
T_truncated == << 123, 34, 49, 34, 58, 91, 34, 97, 34 >>
T_user == << 123, 34, 117, 105, 100, 34, 58, 51, 44, 34, 108, 118, 34, 58, 52, 125 >>

F_LoginAlice == Frame(MAGIC, FCTYPE_LOGIN, 0, 4242, 0, 555, T_alice)
F_LoginGuest == Frame(MAGIC, FCTYPE_LOGIN, 0, 7, 0, 9, T_Guest9)
F_LoginNoName == Frame(MAGIC, FCTYPE_LOGIN, 0, 8, 0, 10, << >>)
\* a username that is all digits: json.loads gives an int
T_digits == << 52, 50 >>
F_LoginDigits == Frame(MAGIC, FCTYPE_LOGIN, 0, 9, 0, 11, T_digits)
F_LoginFailed == Frame(MAGIC, FCTYPE_LOGIN, 0, 0, 1, 0, << >>)
F_Cams == Frame(MAGIC, FCTYPE_MANAGELIST, 0, 0, 0, FCL_CAMS, T_cams)
F_Tags == Frame(MAGIC, FCTYPE_MANAGELIST, 0, 0, 0, FCL_TAGS, T_tags)
F_Truncated == Frame(MAGIC, FCTYPE_TAGS, 0, 0, 0, 0, T_truncated)
F_BookmarksEmpty == Frame(MAGIC, FCTYPE_BOOKMARKS, 0, 0, 0, 0, << >>)
F_Lookup(q) == Frame(MAGIC, FCTYPE_USERNAMELOOKUP, 0, 0, q, 0, T_user)
F_LookupNone(q) == Frame(MAGIC, FCTYPE_USERNAMELOOKUP, 0, 0, q, 0, << >>)
F_BadMagic == Frame(0, FCTYPE_NULL, 0, 0, 0, 0, << >>)

QueryIds == FirstQueryId .. (FirstQueryId + MaxQueries - 1)

\* A run of the lifecycle model is about one part of the protocol, its scope: the
\* frames the server sends in it, and whether the caller issues queries.
Scopes == { "session", "payloads", "queries" }

ServerFrames(sc) ==
    CASE sc = "session" ->
           { F_LoginAlice, F_LoginGuest, F_LoginFailed, F_BadMagic }
      [] sc = "payloads" ->
           { F_LoginNoName, F_LoginDigits, F_Cams, F_Tags, F_Truncated, F_BookmarksEmpty }
      [] sc = "queries" ->
           { F_Lookup(q) : q \in QueryIds } \cup { F_LookupNone(q) : q \in QueryIds }

(***************************************************************************)
(* The state.                                                              *)
(*   client        the Client object's fields; keepalive and transport     *)
(*                 are 0 for None, keepalive is else a timer slot and      *)
(*                 transport a connection slot or, for the transport of a  *)
(*                 connection that is gone, ClosedTransport                *)
(*   models        Model.All: the ids with a record                        *)
(*   listeners     the query handlers subscribed to USERNAMELOOKUP         *)
(*   futures       query id -> the future query_user made for it           *)
(*   userQueryId   Client.userQueryId                                      *)
(*   conns         the sockets: slot -> its state and MFCProtocol.buffer   *)
(*   connecting    the connect() coroutines suspended in create_connection *)
(*   timers        the event loop's call_later handles, slot -> kind and   *)
(*                 the time left                                           *)
(*   soon          the event loop's call_soon queue: events to emit and    *)
(*                 the connection_lost calls transport.close() scheduled;  *)
(*                 it runs before any later I/O or timer callback          *)
(*   loopStopped   loop.stop() was called: no callback runs any more       *)
(*   loopHung      a callback never returned                               *)
(*   callerConnect the caller's connect() call: idle, running, returned,   *)
(*                 raised                                                  *)
(*   events        what emit delivered during the last step                *)
(*   written       what transport.write was given during the last step     *)
(*   last          the last step: its operation, connection, frame         *)
(*   disconnectCalled  the caller has called disconnect()                  *)
(*   scope         the part of the protocol the run is about               *)
(*   logins        the login flags of the last two connect() calls         *)
(*   perConn       since the last connection was opened: the CAMS and TAGS *)
(*                 bulk lists received and the loaded events emitted       *)
(*   dec           two MFCProtocol decoders given the same byte stream,    *)
(*                 one in chunks and one in a single call                  *)
(*   alloc         threads inside query_user: the lock, each thread's      *)
(*                 position and locals, the ids handed out                 *)
(*   tx            a command given to tx_cmd, and what a peer engine       *)
(*                 decodes from the bytes written                          *)
(*   lst           a bulk list given to _process_list, and its result      *)
(***************************************************************************)
VARIABLES client, models, listeners, futures, userQueryId, conns, connecting,
          timers, soon, loopStopped, loopHung, callerConnect, events, written,
          last, disconnectCalled, scope, logins, perConn, dec, alloc, tx, lst

lifeVars == << client, models, listeners, futures, userQueryId, conns, connecting,
              timers, soon, loopStopped, loopHung, callerConnect, events, written,
              last, disconnectCalled, scope, logins, perConn >>
vars == << client, models, listeners, futures, userQueryId, conns, connecting,
           timers, soon, loopStopped, loopHung, callerConnect, events, written,
           last, disconnectCalled, scope, logins, perConn, dec, alloc, tx, lst >>

ClosedTransport == -1
FreeConn == [state |-> "free", buffer |-> << >>]
FreeTimer == [kind |-> "free", remaining |-> 0]
NoFrame == Frame(0, -1, 0, 0, 0, 0, << >>)
NoFuture == [state |-> "none", result |-> None]
Pending == [state |-> "pending", result |-> None]

\* the counters of perConn stop at this value
CountCap == 2
NoLists == [cams |-> 0, modelsLoaded |-> 0, tags |-> 0, tagsLoaded |-> 0]
Bump(n, by) == IF n + by > CountCap THEN CountCap ELSE n + by
CountKind(evs, kind) == Len(SelectSeq(evs, LAMBDA e : e.kind = kind))

\* the step taken last.  unexpected: of a connection_lost, that disconnect() had
\* not closed that connection; of a connect_failed, that the connect was the
\* reconnect handle's and not the caller's
Step(op, conn, frame, unexpected) ==
    [op |-> op, conn |-> conn, frame |-> frame, unexpected |-> unexpected]

\* the lowest slot of f holding free, 0 when there is none
LowestFree(f, free) ==
    IF \E i \in DOMAIN f : f[i] = free
    THEN CHOOSE i \in DOMAIN f : f[i] = free /\ \A j \in DOMAIN f : f[j] = free => i <= j
    ELSE 0

\* the credentials the Client is constructed with (client.py:71)
Credentials == { << K_guest, K_guest >>, << T_alice, << 115, 101, 99, 114, 101, 116 >> >> }

\* the Client and its event loop after construction
LifeInit ==
    /\ \E cr \in Credentials :
         client = [username |-> PyStr(cr[1]), password |-> cr[2], server_config |-> FALSE,
                   transport |-> 0, session_id |-> 0, keepalive |-> 0,
                   _completed_models |-> FALSE, _completed_tags |-> FALSE,
                   uid |-> None, _manual_disconnect |-> FALSE, _logged_in |-> FALSE,
                   stream_cxid |-> None, stream_password |-> None,
                   stream_vidctx |-> None]
    /\ models = {}
    /\ listeners = << >>
    /\ futures = [q \in QueryIds |-> NoFuture]
    /\ userQueryId = FirstQueryId
    /\ conns = [k \in 1..MaxConns |-> FreeConn]
    /\ connecting = << >>
    /\ timers = [t \in 1..MaxTimers |-> FreeTimer]
    /\ soon = << >>
    /\ loopStopped = FALSE
    /\ loopHung = FALSE
    /\ callerConnect = "idle"
    /\ events = << >>
    /\ written = << >>
    /\ last = Step("init", 0, NoFrame, FALSE)
    /\ disconnectCalled = FALSE
    /\ logins = << "none", "none" >>
    /\ perConn = NoLists

NoDec == [stream |-> << >>, fed |-> 0, wholeFed |-> FALSE, split |-> FALSE,
          chunked |-> << >>, whole |-> << >>]

NoAlloc == [owner |-> 0, pc |-> << >>, query_id |-> << >>, loaded |-> << >>,
            calls |-> << >>, ids |-> << >>]
NoTx == [stage |-> "none"]
NoLst == [stage |-> "none"]

Init ==
    /\ LifeInit
    /\ scope \in Scopes
    /\ dec = NoDec
    /\ alloc = NoAlloc
    /\ tx = NoTx
    /\ lst = NoLst

\* the engine state a callback works on; decoded and cuts record, for each frame
\* data_received decoded, the packet and what line 59 removed from the buffer
Engine(buffer) ==
    [client |-> client, models |-> models, listeners |-> listeners, futures |-> futures,
     events |-> << >>, buffer |-> buffer, decoded |-> << >>, cuts |-> << >>,
     packet |-> NoPacket,
     raised |-> FALSE,
     stopped |-> FALSE, hung |-> FALSE, timers |-> timers, overflow |-> FALSE]

Running == ~loopStopped /\ ~loopHung

\* an I/O or timer callback can run: the call_soon queue is served first
Idle == Running /\ soon = << >>

SoonEmit(kind) == [call |-> "emit", arg |-> kind]
SoonLost(k) == [call |-> "connection_lost", arg |-> k]

\* loop.call_later(delay, callback): the handle's slot is s.timers' lowest free one
call_later(s, delay, kind) ==
    LET slot == LowestFree(s.timers, FreeTimer)
    IN  IF slot = 0 THEN [s EXCEPT !.overflow = TRUE]
        ELSE [s EXCEPT !.timers[slot] = [kind |-> kind, remaining |-> delay]]

(***************************************************************************)
(* Client.handle_disconnected (client.py:197-214).                         *)
(***************************************************************************)
\* the handle dropped without cancel()
CancelKeepalive_forget(s) == [s EXCEPT !.client.keepalive = 0]

\* lines 200-202
CancelKeepalive(s) ==
    IF s.client.keepalive # 0
    THEN [s EXCEPT !.timers[s.client.keepalive] = FreeTimer, !.client.keepalive = 0]
    ELSE s

\* lines 203-204: username.startswith is an AttributeError unless username is a text
ResetGuestName(s) ==
    IF s.client.password # K_guest THEN s
    ELSE IF ~IsStr(s.client.username) THEN Raise(s)
    ELSE IF StartsWith(s.client.username.v, K_Guest)
         THEN [s EXCEPT !.client.username = PyStr(K_guest)]
    ELSE s

\* a second reconnect handle scheduled next to the first
ReconnectOrStop_twice(s) ==
    IF ~s.client._manual_disconnect
    THEN call_later(call_later(s, ReconnectDelay, "reconnect"), ReconnectDelay, "reconnect")
    ELSE [s EXCEPT !.stopped = TRUE]

\* lines 207-211
ReconnectOrStop(s) ==
    IF ~s.client._manual_disconnect THEN call_later(s, ReconnectDelay, "reconnect")
    ELSE [s EXCEPT !.stopped = TRUE]

handle_disconnected(s) ==
    LET s1 == ResetGuestName(CancelKeepalive(s))
        s2 == [s1 EXCEPT !.client._completed_models = FALSE,
                         !.client._completed_tags = FALSE]
        s3 == [ReconnectOrStop(s2) EXCEPT !.client._manual_disconnect = FALSE]
        s4 == emit(s3, CLIENT_DISCONNECTED, NoPacket)
    IN  IF s1.raised THEN s1 ELSE [s4 EXCEPT !.models = {}]

(***************************************************************************)
(* Actions.                                                                *)
(***************************************************************************)
\* what a callback leaves in the variables the engine record holds
Commit(s) ==
    /\ ~s.overflow
    /\ client' = s.client
    /\ models' = s.models
    /\ listeners' = s.listeners
    /\ futures' = s.futures
    /\ events' = s.events
    /\ timers' = s.timers
    /\ loopStopped' = (loopStopped \/ s.stopped)
    /\ loopHung' = (loopHung \/ s.hung)

\* connect() up to its await (client.py:183-187): resolved is whether the server
\* list could be fetched when it is not cached yet
ConnectStart(s, login, origin, resolved) ==
    IF ~s.client.server_config /\ ~resolved THEN Raise(s)
    ELSE [s EXCEPT !.client.server_config = TRUE, !.client._logged_in = login]

\* the caller's single connect(login) call
CallerConnect(login, resolved) ==
    /\ Running
    /\ callerConnect = "idle"
    /\ Len(connecting) < MaxConns
    /\ LET s == ConnectStart(Engine(<< >>), login, "caller", resolved)
       IN  /\ Commit(s)
           /\ connecting' = IF s.raised THEN connecting
                            ELSE Append(connecting, [login |-> login, origin |-> "caller"])
           /\ callerConnect' = IF s.raised THEN "raised" ELSE "running"
    /\ written' = << >>
    /\ last' = Step("connect", 0, NoFrame, FALSE)
    /\ logins' = << logins[2], login >>
    /\ UNCHANGED << userQueryId, conns, soon, disconnectCalled, scope, dec, alloc, tx, lst, perConn >>

RemoveAt(q, i) == SubSeq(q, 1, i - 1) \o SubSeq(q, i + 1, Len(q))

\* create_connection succeeded: the rest of connect (client.py:187-192)
ConnectComplete(i) ==
    /\ Idle
    /\ i \in 1..Len(connecting)
    /\ LowestFree(conns, FreeConn) # 0
    /\ LET slot == LowestFree(conns, FreeConn)
           login == connecting[i].login
           s0 == [Engine(<< >>) EXCEPT !.client.transport = slot]
           s1 == IF login /\ s0.client.keepalive = 0
                 THEN LET s == call_later(s0, KeepaliveDelay, "ping")
                      IN  [s EXCEPT !.client.keepalive = LowestFree(s0.timers, FreeTimer)]
                 ELSE s0
       IN  /\ Commit(s1)
           /\ conns' = [conns EXCEPT ![slot] = [state |-> "open", buffer |-> << >>]]
           /\ written' = IF login
                         THEN << [conn |-> slot,
                                  data |-> tx_cmd(client.session_id, FCTYPE_LOGIN, 0,
                                                  LoginVersion, 0,
                                                  Format(client.username) \o << 58 >>
                                                      \o client.password)] >>
                         ELSE << >>
           /\ callerConnect' = IF connecting[i].origin = "caller" THEN "returned"
                               ELSE callerConnect
           /\ last' = Step("connected", slot, NoFrame, FALSE)
    /\ connecting' = RemoveAt(connecting, i)
    /\ soon' = Append(soon, SoonEmit(CLIENT_CONNECTED))
    /\ perConn' = NoLists
    /\ UNCHANGED << userQueryId, disconnectCalled, scope, dec, alloc, tx, lst, logins >>

\* create_connection raised: connect ends with the exception
ConnectFail(i) ==
    /\ Idle
    /\ i \in 1..Len(connecting)
    /\ connecting' = RemoveAt(connecting, i)
    /\ callerConnect' = IF connecting[i].origin = "caller" THEN "raised" ELSE callerConnect
    /\ events' = << >>
    /\ written' = << >>
    /\ last' = Step("connect_failed", 0, NoFrame, connecting[i].origin = "timer")
    /\ UNCHANGED << client, models, listeners, futures, userQueryId, conns, timers, soon,
                    loopStopped, loopHung, disconnectCalled, scope, dec, alloc, tx, lst, logins, perConn >>

\* a call_soon callback runs: emit(kind)
RunSoon ==
    /\ Running
    /\ soon # << >> /\ Head(soon).call = "emit"
    /\ Commit(emit(Engine(<< >>), Head(soon).arg, NoPacket))
    /\ soon' = Tail(soon)
    /\ written' = << >>
    /\ last' = Step("soon", 0, NoFrame, FALSE)
    /\ UNCHANGED << userQueryId, conns, connecting, callerConnect, disconnectCalled, scope, dec, alloc, tx, lst, logins, perConn >>

\* what data_received(frame f) left in s, for connection k
Received(k, f, s) ==
    /\ Commit(s)
    /\ conns' = [conns EXCEPT ![k].buffer = s.buffer]
    /\ perConn' =
          [cams |-> Bump(perConn.cams, IF f = F_Cams THEN 1 ELSE 0),
           modelsLoaded |-> Bump(perConn.modelsLoaded,
                                 CountKind(s.events, CLIENT_MODELSLOADED)),
           tags |-> Bump(perConn.tags, IF f = F_Tags THEN 1 ELSE 0),
           tagsLoaded |-> Bump(perConn.tagsLoaded,
                               CountKind(s.events, CLIENT_TAGSLOADED))]

\* the server's bytes arrive on connection k: MFCProtocol.data_received
DataReceived(k, f) ==
    /\ Idle
    /\ conns[k].state = "open"
    /\ Received(k, f, data_received(Engine(conns[k].buffer), FrameBytes(f)))
    /\ written' = << >>
    /\ soon' = soon
    /\ last' = Step("data_received", k, f, FALSE)
    /\ UNCHANGED << userQueryId, connecting, callerConnect, disconnectCalled, scope, dec, alloc, tx, lst, logins >>

\* MFCProtocol.connection_lost on connection k (client.py:25-26)
connection_lost(k) ==
    /\ LET s0 == Engine(<< >>)
           s == handle_disconnected(
                    [s0 EXCEPT !.client.transport =
                                   IF @ = k THEN ClosedTransport ELSE @])
       IN  Commit(s)
    /\ conns' = [conns EXCEPT ![k] = FreeConn]
    /\ written' = << >>
    /\ last' = Step("connection_lost", k, NoFrame, conns[k].state = "open")
    /\ UNCHANGED << userQueryId, connecting, callerConnect, disconnectCalled, scope, dec, alloc, tx, lst, logins, perConn >>

\* connection k is closed by the peer or fails
ConnectionLost(k) ==
    /\ Idle
    /\ conns[k].state = "open"
    /\ connection_lost(k)
    /\ soon' = soon

\* the connection_lost call that transport.close() scheduled runs
ConnectionClosed ==
    /\ Running
    /\ soon # << >> /\ Head(soon).call = "connection_lost"
    /\ connection_lost(Head(soon).arg)
    /\ soon' = Tail(soon)

\* the caller's disconnect() (client.py:193-196), once connect() has returned (so
\* that there is a transport); transport.close() does nothing on a transport
\* already closed
Disconnect ==
    /\ Running
    /\ callerConnect = "returned"
    /\ client' = [client EXCEPT !._manual_disconnect = TRUE]
    /\ LET open == client.transport > 0 /\ conns[client.transport].state = "open"
       IN  /\ conns' = IF open THEN [conns EXCEPT ![client.transport].state = "closing"]
                       ELSE conns
           /\ soon' = IF open THEN Append(soon, SoonLost(client.transport)) ELSE soon
    /\ disconnectCalled' = TRUE
    /\ events' = << >>
    /\ written' = << >>
    /\ last' = Step("disconnect", IF client.transport > 0 THEN client.transport ELSE 0,
                    NoFrame, FALSE)
    /\ UNCHANGED << models, listeners, futures, userQueryId, connecting, timers,
                    loopStopped, loopHung, callerConnect, scope, dec, alloc, tx, lst, logins, perConn >>

MinRemaining ==
    LET busy == { t \in DOMAIN timers : timers[t] # FreeTimer }
    IN  CHOOSE m \in { timers[t].remaining : t \in busy } :
            \A t \in busy : m <= timers[t].remaining

\* d time units pass
Tick(d) ==
    /\ Idle
    /\ \E t \in DOMAIN timers : timers[t] # FreeTimer
    /\ d >= 1 /\ d <= MinRemaining
    /\ d = MinRemaining \/ d % TickQuantum = 0
    /\ timers' = [t \in DOMAIN timers |->
                     IF timers[t] = FreeTimer THEN FreeTimer
                     ELSE [timers[t] EXCEPT !.remaining = @ - d]]
    /\ events' = << >>
    /\ written' = << >>
    /\ last' = Step("tick", 0, NoFrame, FALSE)
    /\ UNCHANGED << client, models, listeners, futures, userQueryId, conns, connecting,
                    soon, loopStopped, loopHung, callerConnect, disconnectCalled, scope, dec, alloc, tx, lst, logins, perConn >>

\* the keepalive handle fires: _ping_loop (client.py:178-180)
PingFire(t) ==
    /\ Idle
    /\ timers[t].kind = "ping" /\ timers[t].remaining = 0
    /\ LET s0 == [Engine(<< >>) EXCEPT !.timers[t] = FreeTimer]
           s == call_later(s0, KeepaliveDelay, "ping")
       IN  Commit([s EXCEPT !.client.keepalive = LowestFree(s0.timers, FreeTimer)])
    /\ written' = << [conn |-> client.transport,
                      data |-> tx_cmd(client.session_id, FCTYPE_NULL, 0, 0, 0, << >>)] >>
    /\ last' = Step("ping", 0, NoFrame, FALSE)
    /\ UNCHANGED << userQueryId, conns, connecting, soon, callerConnect, disconnectCalled, scope, dec, alloc, tx, lst, logins, perConn >>

\* the reconnect handle fires (client.py:209): connect(self._logged_in) runs up to
\* its await
ReconnectFire(t, resolved) ==
    /\ Idle
    /\ timers[t].kind = "reconnect" /\ timers[t].remaining = 0
    /\ Len(connecting) < MaxConns
    /\ LET s0 == [Engine(<< >>) EXCEPT !.timers[t] = FreeTimer]
           s == ConnectStart(s0, client._logged_in, "timer", resolved)
       IN  /\ Commit(s)
           /\ connecting' = IF s.raised THEN connecting
                            ELSE Append(connecting,
                                        [login |-> client._logged_in, origin |-> "timer"])
    /\ written' = << >>
    /\ last' = Step("reconnect", 0, NoFrame, FALSE)
    /\ logins' = << logins[2], client._logged_in >>
    /\ UNCHANGED << userQueryId, conns, soon, callerConnect, disconnectCalled, scope, dec, alloc, tx, lst, perConn >>

\* the caller's query_user(user) (client.py:306-328), user an int or a text; the
\* write is an AttributeError when there is no transport yet
QueryUser(user) ==
    /\ Running
    /\ scope = "queries"
    /\ userQueryId < FirstQueryId + MaxQueries
    /\ userQueryId' = userQueryId + 1
    /\ futures' = [futures EXCEPT ![userQueryId] = Pending]
    /\ listeners' = Append(listeners, userQueryId)
    /\ written' = IF client.transport = 0 THEN << >>
                  ELSE << [conn |-> client.transport,
                           data |-> IF IsStr(user)
                                    THEN tx_cmd(client.session_id, FCTYPE_USERNAMELOOKUP, 0,
                                                userQueryId, 0, user.v)
                                    ELSE tx_cmd(client.session_id, FCTYPE_USERNAMELOOKUP, 0,
                                                userQueryId, user.v, << >>)] >>
    /\ events' = << >>
    /\ last' = Step("query_user", 0, NoFrame, FALSE)
    /\ UNCHANGED << client, models, conns, connecting, timers, soon, loopStopped, loopHung,
                    callerConnect, disconnectCalled, scope, dec, alloc, tx, lst, logins, perConn >>

Next ==
    \/ \E login \in BOOLEAN, resolved \in BOOLEAN : CallerConnect(login, resolved)
    \/ \E i \in 1..MaxConns : ConnectComplete(i)
    \/ \E i \in 1..MaxConns : ConnectFail(i)
    \/ RunSoon
    \/ \E k \in 1..MaxConns, f \in ServerFrames(scope) : DataReceived(k, f)
    \/ \E k \in 1..MaxConns : ConnectionLost(k)
    \/ ConnectionClosed
    \/ Disconnect
    \/ \E d \in 1..KeepaliveDelay : Tick(d)
    \/ \E t \in 1..MaxTimers : PingFire(t)
    \/ \E t \in 1..MaxTimers, resolved \in BOOLEAN : ReconnectFire(t, resolved)
    \/ \E user \in { PyInt(3), PyStr(T_alice) } : QueryUser(user)

Spec == Init /\ [][Next]_vars

\* the same program with a server whose payloads always have the shape their
\* message kind calls for: no frame of ServerFrames("payloads") is sent
ConformingInit == Init /\ scope # "payloads"
ConformingSpec == ConformingInit /\ [][Next]_vars

\* the event loop runs the callbacks that are ready, time passes, and
\* create_connection returns or raises; the server and the caller owe nothing
LoopStep ==
    \/ RunSoon
    \/ ConnectionClosed
    \/ \E i \in 1..MaxConns : ConnectComplete(i) \/ ConnectFail(i)
    \/ \E d \in 1..KeepaliveDelay : Tick(d)
    \/ \E t \in 1..MaxTimers : PingFire(t)
    \/ \E t \in 1..MaxTimers, resolved \in BOOLEAN : ReconnectFire(t, resolved)

FairSpec == ConformingInit /\ [][Next]_vars /\ WF_vars(LoopStep)

(***************************************************************************)
(* The decoder alone.  One byte stream made of whole valid frames is given *)
(* to two MFCProtocol instances of equal clients: to dec.chunked in        *)
(* successive data_received calls of any sizes, to dec.whole in a single   *)
(* call.  A decoder whose loop was stopped gets no further call.           *)
(***************************************************************************)
\* frames in a stream
MaxFrames == 2

\* "\u00e9", two bytes in UTF-8
T_accent == << 233 >>

F_Ping == Frame(MAGIC, FCTYPE_NULL, 0, 0, 0, 0, << >>)
F_Accent == Frame(MAGIC, FCTYPE_CMESG, 0, 0, 0, 0, T_accent)

DecFrames == { F_LoginGuest, F_Ping, F_Truncated, F_Accent, F_BookmarksEmpty }

Streams == UNION { [1..n -> DecFrames] : n \in 1..MaxFrames }

RECURSIVE StreamBytes(_)
StreamBytes(frames) ==
    IF frames = << >> THEN << >>
    ELSE FrameBytes(Head(frames)) \o StreamBytes(Tail(frames))

DecInit ==
    /\ LifeInit
    /\ scope = "decoder"
    /\ alloc = NoAlloc /\ tx = NoTx /\ lst = NoLst
    /\ \E frames \in Streams :
         dec = [stream |-> StreamBytes(frames), fed |-> 0, wholeFed |-> FALSE,
                split |-> FALSE, chunked |-> Engine(<< >>), whole |-> Engine(<< >>)]

\* what a data_received call of n bytes left in s, for the chunked decoder
Fed(n, s) ==
    dec' = [dec EXCEPT !.chunked = s, !.fed = @ + n,
                       !.split = @ \/ (s.buffer # << >> /\ ~s.stopped)]

\* the next n bytes of the stream arrive at the chunked decoder
Feed(n) ==
    /\ ~dec.chunked.stopped /\ ~dec.chunked.hung
    /\ n \in 1..(Len(dec.stream) - dec.fed)
    /\ Fed(n, data_received(dec.chunked, SubSeq(dec.stream, dec.fed + 1, dec.fed + n)))
    /\ UNCHANGED << lifeVars, alloc, tx, lst >>

\* the whole stream arrives at the other decoder in one call
FeedWhole ==
    /\ ~dec.wholeFed
    /\ dec' = [dec EXCEPT !.whole = data_received(@, dec.stream), !.wholeFed = TRUE]
    /\ UNCHANGED << lifeVars, alloc, tx, lst >>

DecNext ==
    \/ \E n \in 1..Len(dec.stream) : Feed(n)
    \/ FeedWhole

DecSpec == DecInit /\ [][DecNext]_vars

\* both decoders have been given all they will get
DecDone ==
    /\ dec.wholeFed
    /\ dec.fed = Len(dec.stream) \/ dec.chunked.stopped \/ dec.chunked.hung

(***************************************************************************)
(* The decoder given any header: a stream is one header with the right     *)
(* magic whose length field the peer chose freely, followed by some bytes. *)
(***************************************************************************)
RawLengths == { -30, -28, -3, 0, 2 }
RawTails == { << >>, << 104, 105 >>, FrameBytes(F_Ping) }

RawHeader(spayload) ==
    Pack32(MAGIC) \o Pack32(FCTYPE_NULL) \o Pack32(0) \o Pack32(0) \o Pack32(0)
        \o Pack32(0) \o Pack32(spayload)

RawInit ==
    /\ LifeInit
    /\ scope = "raw"
    /\ alloc = NoAlloc /\ tx = NoTx /\ lst = NoLst
    /\ \E spayload \in RawLengths, tail \in RawTails :
         dec = [stream |-> RawHeader(spayload) \o tail, fed |-> 0, wholeFed |-> FALSE,
                split |-> FALSE, chunked |-> Engine(<< >>), whole |-> Engine(<< >>)]

RawSpec == RawInit /\ [][DecNext]_vars

(***************************************************************************)
(* The decoder given frames whose merge adds records to the registry: the  *)
(* streams are made of user lookup responses and CAMS lists.                *)
(***************************************************************************)
\* frames in a stream
MaxOrdFrames == 2

OrdFrames == { F_Lookup(FirstQueryId), F_Cams }

OrdStreams == UNION { [1..n -> OrdFrames] : n \in 1..MaxOrdFrames }

OrdInit ==
    /\ LifeInit
    /\ client.password = K_guest
    /\ scope = "order"
    /\ alloc = NoAlloc /\ tx = NoTx /\ lst = NoLst
    /\ \E frames \in OrdStreams :
         dec = [stream |-> StreamBytes(frames), fed |-> 0, wholeFed |-> FALSE,
                split |-> FALSE, chunked |-> Engine(<< >>), whole |-> Engine(<< >>)]

OrdSpec == OrdInit /\ [][DecNext]_vars

(***************************************************************************)
(* query_user called from several threads (client.py:306-328).  Each step  *)
(* is one access to the shared class attributes Client.userQueryLock and   *)
(* Client.userQueryId; a thread may be preempted between any two.          *)
(***************************************************************************)
\* threads calling query_user
MaxThreads == 2
\* calls each thread makes
MaxCalls == 2

Threads == 1..MaxThreads

QInit ==
    /\ LifeInit
    /\ scope = "allocator"
    /\ dec = NoDec /\ tx = NoTx /\ lst = NoLst
    /\ alloc = [owner |-> 0, pc |-> [t \in Threads |-> "idle"],
                query_id |-> [t \in Threads |-> 0], loaded |-> [t \in Threads |-> 0],
                calls |-> [t \in Threads |-> 0], ids |-> << >>]

\* RLock.acquire() by thread t need not wait with the lock in state a: an RLock is
\* free or held by t itself
CanAcquire_always(a, t) == TRUE

CanAcquire(a, t) == a.owner \in { 0, t }

QUnchanged ==
    UNCHANGED << client, models, listeners, futures, conns, connecting, timers, soon,
                 loopStopped, loopHung, callerConnect, events, written, last,
                 disconnectCalled, scope, logins, perConn, dec, tx, lst >>

\* thread t calls query_user
QCall(t) ==
    /\ alloc.pc[t] = "idle" /\ alloc.calls[t] < MaxCalls
    /\ alloc' = [alloc EXCEPT !.pc[t] = "acquire"]
    /\ UNCHANGED userQueryId /\ QUnchanged

\* client.py:309, with Client.userQueryLock
QAcquire(t) ==
    /\ alloc.pc[t] = "acquire" /\ CanAcquire(alloc, t)
    /\ alloc' = [alloc EXCEPT !.owner = t, !.pc[t] = "read"]
    /\ UNCHANGED userQueryId /\ QUnchanged

\* client.py:311, query_id = Client.userQueryId
QRead(t) ==
    /\ alloc.pc[t] = "read"
    /\ alloc' = [alloc EXCEPT !.query_id[t] = userQueryId, !.pc[t] = "load",
                             !.ids = Append(@, [thread |-> t, id |-> userQueryId])]
    /\ UNCHANGED userQueryId /\ QUnchanged

\* client.py:312, Client.userQueryId += 1: the attribute is read ...
QLoad(t) ==
    /\ alloc.pc[t] = "load"
    /\ alloc' = [alloc EXCEPT !.loaded[t] = userQueryId, !.pc[t] = "store"]
    /\ UNCHANGED userQueryId /\ QUnchanged

\* ... and written
QStore(t) ==
    /\ alloc.pc[t] = "store"
    /\ userQueryId' = alloc.loaded[t] + 1
    /\ alloc' = [alloc EXCEPT !.pc[t] = "register"]
    /\ QUnchanged

\* client.py:313-328: the handler is registered, the command written, the future
\* returned, and the with block left
QRelease(t) ==
    /\ alloc.pc[t] = "register"
    /\ alloc' = [alloc EXCEPT !.owner = IF @ = t THEN 0 ELSE @, !.pc[t] = "idle",
                             !.calls[t] = @ + 1]
    /\ UNCHANGED userQueryId /\ QUnchanged

QNext ==
    \/ \E t \in Threads : QCall(t)
    \/ \E t \in Threads : QAcquire(t)
    \/ \E t \in Threads : QRead(t)
    \/ \E t \in Threads : QLoad(t)
    \/ \E t \in Threads : QStore(t)
    \/ \E t \in Threads : QRelease(t)

QSpec == QInit /\ [][QNext]_vars

(***************************************************************************)
(* tx_cmd and the decoder back to back: a command is written by a client   *)
(* whose session id is tx.session_id, and the bytes written are given to   *)
(* the data_received of a peer engine.                                     *)
(***************************************************************************)
T_hi == << 104, 105 >>

\* the texts sent: none, ASCII, and one character that takes two bytes
TxTexts == { << >>, T_hi, T_accent }

TxInit ==
    /\ LifeInit
    /\ scope = "sending"
    /\ dec = NoDec /\ alloc = NoAlloc /\ lst = NoLst
    /\ \E fctype \in { FCTYPE_NULL, FCTYPE_CMESG }, nto \in { 0, 7 }, narg1 \in { 0, 20 },
          narg2 \in { 0, 3 }, smsg \in TxTexts, session_id \in { 0, 4242 } :
         tx = [stage |-> "ready", fctype |-> fctype, nto |-> nto, narg1 |-> narg1,
               narg2 |-> narg2, smsg |-> smsg, session_id |-> session_id,
               data |-> << >>, peer |-> Engine(<< >>)]

\* Client.tx_cmd(fctype, nto, narg1, narg2, smsg)
TxSend ==
    /\ tx.stage = "ready"
    /\ tx' = [tx EXCEPT !.stage = "written",
                       !.data = tx_cmd(tx.session_id, tx.fctype, tx.nto, tx.narg1,
                                       tx.narg2, tx.smsg)]
    /\ UNCHANGED << lifeVars, dec, alloc, lst >>

\* the peer's data_received gets the bytes written
TxReceive ==
    /\ tx.stage = "written"
    /\ tx' = [tx EXCEPT !.stage = "received", !.peer = data_received(@, tx.data)]
    /\ UNCHANGED << lifeVars, dec, alloc, lst >>

TxNext == TxSend \/ TxReceive

TxSpec == TxInit /\ [][TxNext]_vars

(***************************************************************************)
(* _process_list on its own: one schema and one sequence row drawn from     *)
(* bounded sets, decoded once.                                             *)
(***************************************************************************)
MaxSchema == 2
MaxRow == 3

T_nm == << 110, 109 >>
T_session == << 115, 101, 115, 115, 105, 111, 110 >>
T_vs == << 118, 115 >>
T_camscore == << 99, 97, 109, 115, 99, 111, 114, 101 >>

SessionGroup == PyDict(<< << T_session, PyList(<< PyStr(T_vs), PyStr(T_camscore) >>) >> >>)
SessionGroupOne == PyDict(<< << T_session, PyList(<< PyStr(T_vs) >>) >> >>)
SchemaEntries == { PyStr(K_uid), PyStr(T_nm), SessionGroup, SessionGroupOne }
EntryName(e) == IF IsStr(e) THEN e.v ELSE e.v[1][1]

\* schemas whose entries bear distinct names
Schemas ==
    { s \in UNION { [1..n -> SchemaEntries] : n \in 1..MaxSchema } :
        \A i, j \in DOMAIN s : i < j => EntryName(s[i]) # EntryName(s[j]) }

RowItems == { PyInt(12345), PyInt(0), PyInt(99), PyList(<< PyInt(0), PyInt(99) >>) }
Rows == UNION { [1..n -> RowItems] : n \in 0..MaxRow }

ListInit ==
    /\ LifeInit
    /\ scope = "lists"
    /\ dec = NoDec
    /\ alloc = NoAlloc
    /\ tx = NoTx
    /\ \E schema \in Schemas, row \in Rows :
         lst = [stage |-> "ready", schema |-> schema, row |-> row,
                result |-> [raised |-> FALSE, r |-> None]]

\* Client._process_list([schema, row])
ListDecode ==
    /\ lst.stage = "ready"
    /\ lst' = [lst EXCEPT !.stage = "done",
                          !.result = _process_list(PyList(<< PyList(lst.schema), PyList(lst.row) >>))]
    /\ UNCHANGED << lifeVars, dec, alloc, tx >>

ListNext == ListDecode

ListSpec == ListInit /\ [][ListNext]_vars

(***************************************************************************)
(* Properties.                                                             *)
(***************************************************************************)
ReconnectTimers == { t \in DOMAIN timers : timers[t].kind = "reconnect" }

FreshReconnectTimers == { t \in ReconnectTimers : timers[t].remaining = ReconnectDelay }

\* the last step was data_received of a whole frame with the right magic
ReceivedFrame == last.op = "data_received" /\ last.frame.magic = MAGIC

\* C1: a socket closure that no disconnect() on that connection caused leaves
\* exactly one reconnect attempt scheduled, ReconnectDelay from now, and a
\* reconnect attempt calls connect with the login flag of the connect before it
C1_ClosureSchedulesReconnect ==
    /\ (last.op = "connection_lost" /\ last.unexpected) =>
           ~loopStopped /\ Cardinality(FreshReconnectTimers) = 1
    /\ last.op = "reconnect" => logins[2] = logins[1]

\* C2: once the caller has called disconnect(), no connect attempt is performed
\* and none is scheduled, also when a reconnect handle was pending at the call
C2_NoConnectAfterDisconnect ==
    disconnectCalled =>
        /\ last.op # "reconnect"
        /\ last.op = "connection_lost" => FreshReconnectTimers = {}

\* C3: a reconnect attempt that fails to open the socket is followed by a further
\* attempt, unless the caller disconnects
C3_FailedReconnectRetried ==
    (last.op = "connect_failed" /\ last.unexpected)
        ~> (last.op = "reconnect" \/ disconnectCalled)

\* C4: when the connection has been torn down, no query_user future is still
\* pending: each one was failed
C4_QueriesFailedAtTeardown ==
    last.op = "connection_lost" => \A q \in QueryIds : futures[q].state # "pending"

\* C5: a complete header with a wrong magic forces a disconnect followed by a
\* reconnect attempt, and does not halt the processing
C5_BadMagicForcesReconnect ==
    (last.op = "data_received" /\ last.frame.magic # MAGIC) =>
        /\ ~loopStopped
        /\ conns[last.conn].state # "open"
        /\ ReconnectTimers # {}

\* C6: a LOGIN response with arg1 # 0 makes the caller's connect(login=True) fail,
\* and the engine does not log in again by itself
C6_FailedLoginFailsConnect ==
    (ReceivedFrame /\ last.frame.fctype = FCTYPE_LOGIN /\ last.frame.narg1 # 0
        /\ client._logged_in) =>
        /\ callerConnect = "raised"
        /\ ReconnectTimers = {} /\ connecting = << >>

C8_ChunkingIndependent ==
    DecDone => dec.chunked.decoded = dec.whole.decoded

C8_Witness ==
    /\ DecDone /\ dec.split
    /\ dec.fed = Len(dec.stream)
    /\ Len(dec.chunked.decoded) >= 2

\* C9: a frame whose payload is not JSON is delivered with the raw text as its
\* payload, and whatever the payload of a frame is, raw text or absent, the engine
\* goes on decoding and dispatching
C9_MalformedPayloadTolerated ==
    (ReceivedFrame /\ ~(last.frame.fctype = FCTYPE_LOGIN /\ last.frame.narg1 # 0)) =>
        /\ ~loopStopped /\ ~loopHung
        /\ (last.frame.text # << >> /\ ~JsonLoads(last.frame.text).ok) =>
               \E i \in DOMAIN events :
                   /\ events[i].kind = last.frame.fctype
                   /\ events[i].packet.smessage = PyStr(last.frame.text)

\* C10: in one connection CLIENT_MODELSLOADED is emitted once, on the first CAMS
\* bulk list, and CLIENT_TAGSLOADED once, on the first TAGS bulk list; after a
\* disconnect both flags are unfired
C10_LoadedOncePerConnection ==
    /\ perConn.modelsLoaded = (IF perConn.cams > 0 THEN 1 ELSE 0)
    /\ perConn.tagsLoaded = (IF perConn.tags > 0 THEN 1 ELSE 0)
    /\ last.op = "connection_lost" =>
           ~client._completed_models /\ ~client._completed_tags

\* C11: every query_user call gets an id no other call gets, and the ids grow
\* strictly in the order they are handed out, however the calling threads
\* interleave
C11_QueryIdsIncrease ==
    \A i, j \in DOMAIN alloc.ids : i < j => alloc.ids[i].id < alloc.ids[j].id

C11_Witness ==
    /\ Len(alloc.ids) >= 3
    /\ \E t, u \in Threads :
          /\ t # u
          /\ alloc.pc[t] = "load" /\ alloc.pc[u] = "acquire"
          /\ \E i \in DOMAIN alloc.ids : alloc.ids[i].thread = u

\* C12: the payloadLength tx_cmd writes is the byte length of the encoded
\* payload, and data_received decodes the bytes written to one message with the
\* same kind, to, arg1, arg2 and payload, its from the sender's session id
C12_TxRoundTrip ==
    /\ tx.stage \in { "written", "received" } =>
           /\ Unpack32(SubSeq(tx.data, packet_size - 3, packet_size))
                  = Len(Utf8Encode(tx.smsg))
           /\ Len(tx.data) = packet_size + Len(Utf8Encode(tx.smsg))
    /\ tx.stage = "received" =>
           tx.peer.decoded =
               << Packet(tx.fctype, tx.session_id, tx.nto, tx.narg1, tx.narg2,
                         IF tx.smsg = << >> THEN None ELSE PyStr(tx.smsg)) >>

\* the schema of the documented example: ["uid", {"session": ["vs", "camscore"]}]
ExampleSchema == << PyStr(K_uid), SessionGroup >>
ExampleRecord ==
    PyDict(<< << K_uid, PyInt(12345) >>,
              << T_session, PyDict(<< << T_vs, PyInt(0) >>, << T_camscore, PyInt(99) >> >>) >> >>)

RECURSIVE SlotPaths(_)
\* the schema's slots in order: <<field>> for a bare field, <<group, subfield>>
\* for each subfield of a group
SlotPaths(schema) ==
    IF schema = << >> THEN << >>
    ELSE LET e == Head(schema)
         IN  (IF IsStr(e) THEN << << e.v >> >>
              ELSE [i \in 1..Len(e.v[1][2].v) |-> << e.v[1][1], e.v[1][2].v[i].v >>])
             \o SlotPaths(Tail(schema))

\* the record holds val at the path
HoldsAt(msg, path, val) ==
    /\ IsDict(msg)
    /\ DictHas(msg, path[1])
    /\ IF Len(path) = 1 THEN DictGet(msg, path[1]) = val
       ELSE /\ IsDict(DictGet(msg, path[1]))
            /\ DictHas(DictGet(msg, path[1]), path[2])
            /\ DictGet(DictGet(msg, path[1]), path[2]) = val

\* C13 as stated: the schema ["uid", {"session": ["vs", "camscore"]}] with the row
\* [12345, [0, 99]], the group's values nested at the group's position, decodes to
\* {"uid": 12345, "session": {"vs": 0, "camscore": 99}}.
C13_NestedRowDecoded ==
    ( /\ lst.stage = "done"
      /\ lst.schema = ExampleSchema
      /\ lst.row = << PyInt(12345), PyList(<< PyInt(0), PyInt(99) >>) >> )
    => /\ ~lst.result.raised
       /\ lst.result.r = PyList(<< ExampleRecord >>)

\* C13 amended: a row holding the values flat, one per schema slot in order (a bare
\* field is one slot, a group one slot per subfield), decodes to one record where
\* each value sits at its slot: directly under a bare field's name, under
\* group/subfield for a group's slot; the row [12345, 0, 99] of the example schema
\* decodes to {"uid": 12345, "session": {"vs": 0, "camscore": 99}}.
C13_FlatRowDecoded ==
    ( lst.stage = "done" /\ Len(lst.row) <= Len(SlotPaths(lst.schema)) )
    => /\ ~lst.result.raised
       /\ IsList(lst.result.r)
       /\ Len(lst.result.r.v) = 1
       /\ \A i \in DOMAIN lst.row :
            HoldsAt(lst.result.r.v[1], SlotPaths(lst.schema)[i], lst.row[i])
       /\ ( lst.schema = ExampleSchema /\ lst.row = << PyInt(12345), PyInt(0), PyInt(99) >>
            => lst.result.r = PyList(<< ExampleRecord >>) )

C13_Witness ==
    /\ lst.stage = "done"
    /\ lst.schema = ExampleSchema
    /\ lst.row = << PyInt(12345), PyInt(0), PyInt(99) >>
    /\ lst.result.r = PyList(<< ExampleRecord >>)

\* the from field of a frame's bytes
FromField(data) == Unpack32(SubSeq(data, 9, 12))

\* C14: once handle_disconnected has run, the session id is 0, the uid is unset
\* and logged-in is false, and the login frame a connect writes carries from = 0.
C14_SessionResetOnDisconnect ==
    /\ last.op = "connection_lost"
       => /\ client.session_id = 0
          /\ client.uid = None
          /\ ~client._logged_in
    /\ last.op = "connected"
       => \A i \in DOMAIN written : FromField(written[i].data) = 0

PingTimers == { t \in DOMAIN timers : timers[t] # FreeTimer /\ timers[t].kind = "ping" }

\* C15: no keepalive timer is pending while the login response is outstanding
\* (connect has just completed, nothing has been received on the connection yet)
\* nor after a failed login response.
C15_KeepaliveAfterLogin ==
    /\ last.op = "connected" => PingTimers = {}
    /\ (last.op = "data_received" /\ last.frame = F_LoginFailed) => PingTimers = {}

\* C16: at most one keepalive timer is pending, and it is the handle the client
\* holds; none is pending while the client has no open transport (before the first
\* connect, and from handle_disconnected until the next connect); a keepalive
\* command is written to an open connection only.
C16_OneKeepalive ==
    /\ Cardinality(PingTimers) <= 1
    /\ PingTimers \subseteq { client.keepalive }
    /\ client.transport <= 0 => PingTimers = {}
    /\ last.op = "ping"
       => \A i \in DOMAIN written :
            written[i].conn > 0 /\ conns[written[i].conn].state = "open"

C16_Witness ==
    /\ last.op = "ping"
    /\ written # << >>
    /\ Cardinality(PingTimers) = 1
    /\ client.session_id # 0

\* the connects in flight that a reconnect handle started
ReconnectsInFlight == { i \in DOMAIN connecting : connecting[i].origin = "timer" }

\* C17: at most one reconnect attempt is pending, counting the reconnect handles
\* scheduled and the reconnects whose connect is in flight.
C17_OneReconnectPending ==
    Cardinality(ReconnectTimers) + Cardinality(ReconnectsInFlight) <= 1

\* disconnect() has just been called with a reconnect scheduled
C17_Witness ==
    /\ last.op = "disconnect"
    /\ Cardinality(ReconnectTimers) = 1

\* C18: each decoded frame removed from the buffer the 28 header bytes plus
\* payloadLength bytes when payloadLength > 0, and the 28 header bytes alone when
\* the declared length is zero or negative.
C18_FrameBytesConsumed ==
    \A d \in { dec.chunked, dec.whole } :
        \A i \in DOMAIN d.cuts :
            d.cuts[i].removed =
                packet_size + (IF d.cuts[i].declared > 0 THEN d.cuts[i].declared ELSE 0)

\* the last step was data_received of a response to a user lookup
ReceivedLookup == last.op = "data_received" /\ last.frame.fctype = FCTYPE_USERNAMELOOKUP

\* C19: a query's future is resolved at most once.  A resolved future's handler is
\* no longer subscribed and the future never changes again; a response never makes
\* set_result raise (the decoder would stop the loop); a response carrying another
\* id leaves the future as it was.
C19_QueryResolvedOnce ==
    /\ [](\A q \in QueryIds :
            futures[q].state = "done" => \A i \in DOMAIN listeners : listeners[i] # q)
    /\ [](ReceivedLookup => ~loopStopped)
    /\ [][\A q \in QueryIds :
            /\ futures[q].state = "done" => futures'[q] = futures[q]
            /\ (last'.op = "data_received" /\ last'.frame.narg1 # q)
               => futures'[q] = futures[q]]_vars

\* a second response with the id of a query already resolved has arrived, another
\* query still pending
C19_Witness ==
    /\ ReceivedLookup
    /\ last.frame = F_Lookup(FirstQueryId)
    /\ futures[FirstQueryId] = [state |-> "done", result |-> None]
    /\ futures[FirstQueryId + 1].state = "pending"

\* C20: when the disconnected event is delivered the entity registry has already
\* been cleared: a handler of the event finds no record.
C20_RegistryClearedBeforeEvent ==
    \A i \in DOMAIN events :
        events[i].kind = CLIENT_DISCONNECTED => events[i].registry = {}

\* an event that delivers a message, not a lifecycle event raised during the merge
IsMessageEvent(e) == e.kind \notin { CLIENT_MODELSLOADED, CLIENT_TAGSLOADED }

\* the events of decoder d are those of its decoded packets, in the order of the
\* stream, each packet under its own kind and then under ANY, and every event of
\* the packet dispatched last found the registry as it is now
DispatchedInOrder(d) ==
    LET ev == SelectSeq(d.events, IsMessageEvent)
        n == Len(d.decoded)
    IN  /\ Len(ev) = 2 * n
        /\ \A i \in 1..n :
             /\ ev[2 * i - 1].kind = d.decoded[i].fctype
             /\ ev[2 * i - 1].packet = d.decoded[i]
             /\ ev[2 * i].kind = ANY
             /\ ev[2 * i].packet = d.decoded[i]
        /\ \A i \in DOMAIN d.events :
             Cardinality({ j \in 1..(i - 1) : IsMessageEvent(d.events[j]) }) >= 2 * (n - 1)
             => d.events[i].registry = d.models

\* C21: messages are dispatched in the order of their frames in the byte stream,
\* one after the other; each is merged before any handler is notified of it, and
\* the handlers of its kind are notified before those of ANY.
C21_DispatchInArrivalOrder ==
    (~dec.chunked.stopped /\ ~dec.whole.stopped)
    => DispatchedInOrder(dec.chunked) /\ DispatchedInOrder(dec.whole)

\* the CAMS list then the lookup response, given in pieces: both dispatched, the
\* second after the first, each adding its record before its events
C21_Witness ==
    /\ dec.split
    /\ Len(dec.chunked.decoded) = 2
    /\ dec.chunked.decoded[1].fctype = FCTYPE_MANAGELIST
    /\ dec.chunked.decoded[2].fctype = FCTYPE_USERNAMELOOKUP
    /\ Cardinality(dec.chunked.models) = 2
    /\ Len(dec.chunked.events) = 5
    /\ Cardinality(dec.chunked.events[1].registry) = 1

====
